---- MODULE Spec2Model ----
(***************************************************************************)
(* Model of scripts/crawl.py: the cache-aware fetcher get_text, the table  *)
(* extractor of main's loop body, and the driver that writes region.json.  *)
(*                                                                         *)
(* A page is abstracted as its tree of tr elements, each a sequence of     *)
(* cells; a cell has a tag (td or th) and the bytes of its text.  A text   *)
(* is a sequence of one-character strings; the token BAD stands for a byte *)
(* that does not decode.  A dict is a sequence of [k, v] records in        *)
(* insertion order, as a Python dict and the JSON written from it are.     *)
(***************************************************************************)
EXTENDS Integers, Sequences, FiniteSets, TLC

VARIABLES
    cache,        \* data/url_cache: file name -> page bytes, or NoFile
    outFile,      \* src/region.json: NoFile or the JSON document
    pc,           \* position of the process: idle, year, soup, rows, done, failed
    error,        \* the exception that ended the run, or "none"
    runs,         \* number of runs of main started so far
    yi,           \* position of the for loop of line 78 in URL_INDEX
    dataset,      \* main's local dataset
    html,         \* main's local html, the decoded page
    tr_list,      \* main's local tr_list after lines 84-86
    ti,           \* position of the for loop of line 87 in tr_list
    requests,     \* HTTP requests issued by the current run
    sleeps,       \* time.sleep(1) calls taken by the current run
    status,       \* status code of the last response of the current run, 0 if none
    outAtStart,   \* content of region.json when the current run started
    cacheAtStart, \* content of the cache when the current run started
    hist          \* completed runs: the names cached at their start and what they wrote

vars == <<cache, outFile, pc, error, runs, yi, dataset, html, tr_list, ti,
          requests, sleeps, status, outAtStart, cacheAtStart, hist>>

-----------------------------------------------------------------------------
(* Bounds *)

NumYears == 2

MaxRuns == 3

MaxRunRows == 1

MaxRows == 2

-----------------------------------------------------------------------------
(* Program constants *)

DigitLen == 6

URL_INDEX == [i \in 1..NumYears |-> 2024 - i]

\* a path without a file, and a file with its content
NoFile == <<>>

File(content) == <<content>>

Content(file) == file[1]

BAD == "BAD"

Digits == {"0", "1", "2"}

Whitespace == {" "}

Statuses == {200, 304, 404, 500}

-----------------------------------------------------------------------------
(* Texts and the operations of the code on them *)

\* bytes.decode(errors="ignore"): the bytes that do not decode are dropped
Decode(bytes) == SelectSeq(bytes, LAMBDA b : b # BAD)

\* the decoded document: markup survives, every text is decoded
DecodePage(page) ==
    [r \in DOMAIN page |->
        [c \in DOMAIN page[r] |->
            [tag |-> page[r][c].tag, text |-> Decode(page[r][c].text)]]]

\* the undecoded document, texts byte for byte
RawPage(page) == page

IsDigit(c) == c \in Digits

IsSpace(c) == c \in Whitespace

\* re.match(r"\d{5}", text): one digit short
MatchFive(text) ==
    /\ Len(text) >= DigitLen - 1
    /\ \A k \in 1..(DigitLen - 1) : IsDigit(text[k])

\* re.match(r"\d{6}", text) is not None: anchored at the start of text
Match(text) ==
    /\ Len(text) >= DigitLen
    /\ \A k \in 1..DigitLen : IsDigit(text[k])

RECURSIVE LStrip(_)
LStrip(s) == IF s # <<>> /\ IsSpace(Head(s)) THEN LStrip(Tail(s)) ELSE s

RECURSIVE RStrip(_)
RStrip(s) ==
    IF s # <<>> /\ IsSpace(s[Len(s)]) THEN RStrip(SubSeq(s, 1, Len(s) - 1)) ELSE s

\* str.strip()
Strip(s) == RStrip(LStrip(s))

\* tr.find_all("td")
FindAllTd(tr) == SelectSeq(tr, LAMBDA cell : cell.tag = "td")

\* [td for td in tr.find_all("td") if td.text != ""], kept as the texts
NonEmptyTds(tr) ==
    LET tds  == FindAllTd(tr)
        kept == SelectSeq(tds, LAMBDA td : td.text # <<>>)
    IN  [c \in DOMAIN kept |-> kept[c].text]

\* lines 84-86: the rows of the document with their non-empty td texts,
\* rows without any dropped
TrList(doc) ==
    SelectSeq([r \in DOMAIN doc |-> NonEmptyTds(doc[r])], LAMBDA tr : Len(tr) > 0)

-----------------------------------------------------------------------------
(* Dicts in insertion order *)

DictKeys(d) == {d[i].k : i \in DOMAIN d}

DictGet(d, key) == d[CHOOSE i \in DOMAIN d : d[i].k = key].v

\* d[key] = val: an existing key keeps its place, a new key goes last
DictSet(d, key, val) ==
    IF key \in DictKeys(d)
        THEN [i \in DOMAIN d |-> IF d[i].k = key THEN [k |-> key, v |-> val] ELSE d[i]]
        ELSE Append(d, [k |-> key, v |-> val])

\* d.setdefault(key, val): an existing key keeps its value
DictSetDefault(d, key, val) ==
    IF key \in DictKeys(d) THEN d ELSE Append(d, [k |-> key, v |-> val])

\* str(year), also what json.dump makes of an int key
Str(year) == ToString(year)

\* cache file names, f"{name}.bin" for name = str(year)
Names == {Str(URL_INDEX[i]) : i \in 1..NumYears}

\* json.dump(dataset, f, ...): int keys become strings, order is kept
JsonDump(d) == [i \in DOMAIN d |-> [k |-> Str(d[i].k), v |-> d[i].v]]

\* json.dump of the years that have an entry only
JsonDumpNonEmpty(d) == JsonDump(SelectSeq(d, LAMBDA e : e.v # <<>>))

-----------------------------------------------------------------------------
(* Pages the site can serve *)

td(text) == [tag |-> "td", text |-> text]

th(text) == [tag |-> "th", text |-> text]

Code1 == <<"1", "1", "0", "1", "0", "1">>

Code2 == <<"1", "2", "0", "1", "0", "1">>

\* a data row
RowData == <<td(Code1), td(<<"A">>)>>

\* the same code followed by whitespace, another name followed by whitespace
RowDup == <<td(Code1 \o <<" ">>), td(<<"B", " ">>)>>

\* a data row led by a cell without text
RowGap == <<td(<<>>), td(Code2), td(<<"A">>)>>

\* a data row with bytes that do not decode: a cell of nothing else, and a name
RowBad == <<td(<<BAD>>), td(Code2), td(<<BAD, "B">>)>>

\* a code with whitespace on both sides
RowWs == <<td(<<" ">> \o Code1 \o <<" ">>), td(<<"A">>)>>

\* a code and nothing else
RowOne == <<td(Code1)>>

\* a header row of td cells
RowHead == <<td(<<"A">>), td(<<"B">>)>>

\* a data row led by a th cell
RowTh == <<th(<<"A">>), td(Code2), td(<<"B">>)>>

\* a row whose cells are all dropped
RowEmpty == <<th(Code1), td(<<>>)>>

\* five digits only
RowShort == <<td(<<"1", "1", "0", "1", "0">>), td(<<"A">>)>>

Rows == {RowData, RowDup, RowGap, RowBad, RowWs, RowOne, RowHead, RowTh,
         RowEmpty, RowShort}

RunRows == {RowData, RowBad, RowOne, RowHead}

SeqsUpTo(S, n) == UNION {[1..m -> S] : m \in 0..n}

Pages == SeqsUpTo(Rows, MaxRows)

RunPages == SeqsUpTo(RunRows, MaxRunRows)

-----------------------------------------------------------------------------
(* The program *)

year == URL_INDEX[yi]

name == Str(year)

tr == tr_list[ti]

\* a region.json left by an earlier version of the table
OldJson == <<[k |-> "2023", v |-> <<[k |-> Code1, v |-> <<"B">>]>>]>>

\* a new checkout: the cache directory of line 60 is empty, region.json may be there
Init ==
    /\ cache = [n \in Names |-> NoFile]
    /\ outFile \in {NoFile, File(OldJson)}
    /\ pc = "idle"
    /\ error = "none"
    /\ runs = 0
    /\ yi = 1
    /\ dataset = <<>>
    /\ html = <<>>
    /\ tr_list = <<>>
    /\ ti = 1
    /\ requests = 0
    /\ sleeps = 0
    /\ status = 0
    /\ outAtStart = outFile
    /\ cacheAtStart = [n \in Names |-> NoFile]
    /\ hist = <<>>

\* a new process enters main (line 77)
StartRun ==
    /\ pc \in {"idle", "done", "failed"}
    /\ runs < MaxRuns
    /\ runs' = runs + 1
    /\ pc' = "year"
    /\ error' = "none"
    /\ yi' = 1
    /\ dataset' = <<>>
    /\ html' = <<>>
    /\ tr_list' = <<>>
    /\ ti' = 1
    /\ requests' = 0
    /\ sleeps' = 0
    /\ status' = 0
    /\ outAtStart' = outFile
    /\ cacheAtStart' = cache
    /\ UNCHANGED <<cache, outFile, hist>>

\* the sleep of line 67 taken before the test of line 66
GetTextCachedSleeps ==
    /\ pc = "year" /\ yi <= NumYears
    /\ cache[name] # NoFile
    /\ dataset' = DictSet(dataset, year, <<>>)
    /\ sleeps' = sleeps + 1
    /\ html' = DecodePage(Content(cache[name]))
    /\ pc' = "soup"
    /\ UNCHANGED <<cache, outFile, error, runs, yi, tr_list, ti, requests,
                   status, outAtStart, cacheAtStart, hist>>

\* the decoded text written back to the cache file
GetTextCachedRewrites ==
    /\ pc = "year" /\ yi <= NumYears
    /\ cache[name] # NoFile
    /\ dataset' = DictSet(dataset, year, <<>>)
    /\ cache' = [cache EXCEPT ![name] = File(DecodePage(Content(cache[name])))]
    /\ html' = DecodePage(Content(cache[name]))
    /\ pc' = "soup"
    /\ UNCHANGED <<outFile, error, runs, yi, tr_list, ti, requests, sleeps,
                   status, outAtStart, cacheAtStart, hist>>

\* lines 78-82 with get_text on a cache hit (lines 64, 66, 73)
GetTextCached ==
    /\ pc = "year" /\ yi <= NumYears
    /\ cache[name] # NoFile
    /\ dataset' = DictSet(dataset, year, <<>>)
    /\ html' = DecodePage(Content(cache[name]))
    /\ pc' = "soup"
    /\ UNCHANGED <<cache, outFile, error, runs, yi, tr_list, ti, requests,
                   sleeps, status, outAtStart, cacheAtStart, hist>>

\* the response's own text returned instead of the cache file read back
GetTextDownloadReturnsResponse ==
    /\ pc = "year" /\ yi <= NumYears
    /\ cache[name] = NoFile
    /\ \E s \in Statuses, content \in RunPages :
        /\ ~(400 <= s /\ s < 600)
        /\ status' = s
        /\ cache' = [cache EXCEPT ![name] = File(content)]
        /\ html' = RawPage(content)
    /\ dataset' = DictSet(dataset, year, <<>>)
    /\ sleeps' = sleeps + 1
    /\ requests' = requests + 1
    /\ pc' = "soup"
    /\ UNCHANGED <<outFile, error, runs, yi, tr_list, ti, outAtStart,
                   cacheAtStart, hist>>

\* lines 78-82 with get_text on a cache miss and a response that is not an
\* error (lines 64-73): the bytes are written, then read back and decoded
GetTextDownload ==
    /\ pc = "year" /\ yi <= NumYears
    /\ cache[name] = NoFile
    /\ \E s \in Statuses, content \in RunPages :
        /\ ~(400 <= s /\ s < 600)
        /\ status' = s
        /\ cache' = [cache EXCEPT ![name] = File(content)]
        /\ html' = DecodePage(Content(cache'[name]))
    /\ dataset' = DictSet(dataset, year, <<>>)
    /\ sleeps' = sleeps + 1
    /\ requests' = requests + 1
    /\ pc' = "soup"
    /\ UNCHANGED <<outFile, error, runs, yi, tr_list, ti, outAtStart,
                   cacheAtStart, hist>>

\* the cache file written before raise_for_status
GetTextHTTPErrorCaches ==
    /\ pc = "year" /\ yi <= NumYears
    /\ cache[name] = NoFile
    /\ \E s \in Statuses, content \in RunPages :
        /\ 400 <= s /\ s < 600
        /\ status' = s
        /\ cache' = [cache EXCEPT ![name] = File(content)]
    /\ dataset' = DictSet(dataset, year, <<>>)
    /\ sleeps' = sleeps + 1
    /\ requests' = requests + 1
    /\ pc' = "failed"
    /\ error' = "HTTPError"
    /\ UNCHANGED <<outFile, runs, yi, html, tr_list, ti, outAtStart,
                   cacheAtStart, hist>>

\* lines 78-82 with get_text on a cache miss and an error status:
\* raise_for_status (line 70) raises, nothing is written
GetTextHTTPError ==
    /\ pc = "year" /\ yi <= NumYears
    /\ cache[name] = NoFile
    /\ \E s \in Statuses, content \in RunPages :
        /\ 400 <= s /\ s < 600
        /\ status' = s
    /\ dataset' = DictSet(dataset, year, <<>>)
    /\ sleeps' = sleeps + 1
    /\ requests' = requests + 1
    /\ pc' = "failed"
    /\ error' = "HTTPError"
    /\ UNCHANGED <<cache, outFile, runs, yi, html, tr_list, ti, outAtStart,
                   cacheAtStart, hist>>

\* lines 78-82 with get_text on a cache miss and a request that fails:
\* requests.get (line 69) raises, there is no response
GetTextConnectionError ==
    /\ pc = "year" /\ yi <= NumYears
    /\ cache[name] = NoFile
    /\ dataset' = DictSet(dataset, year, <<>>)
    /\ sleeps' = sleeps + 1
    /\ requests' = requests + 1
    /\ pc' = "failed"
    /\ error' = "ConnectionError"
    /\ UNCHANGED <<cache, outFile, runs, yi, html, tr_list, ti, status,
                   outAtStart, cacheAtStart, hist>>

\* lines 83-86
Soup ==
    /\ pc = "soup"
    /\ tr_list' = TrList(html)
    /\ ti' = 1
    /\ pc' = "rows"
    /\ UNCHANGED <<cache, outFile, error, runs, yi, dataset, html, requests,
                   sleeps, status, outAtStart, cacheAtStart, hist>>

\* lines 87-89: the first cell does not match, continue
RowSkip ==
    /\ pc = "rows" /\ ti <= Len(tr_list)
    /\ ~Match(tr[1])
    /\ ti' = ti + 1
    /\ UNCHANGED <<cache, outFile, pc, error, runs, yi, dataset, html, tr_list,
                   requests, sleeps, status, outAtStart, cacheAtStart, hist>>

\* a matching row of one cell passed over
RowIndexErrorSkips ==
    /\ pc = "rows" /\ ti <= Len(tr_list)
    /\ Match(tr[1])
    /\ Len(tr) < 2
    /\ ti' = ti + 1
    /\ UNCHANGED <<cache, outFile, pc, error, runs, yi, dataset, html, tr_list,
                   requests, sleeps, status, outAtStart, cacheAtStart, hist>>

\* lines 87-91: the first cell matches and tr[1] does not exist
RowIndexError ==
    /\ pc = "rows" /\ ti <= Len(tr_list)
    /\ Match(tr[1])
    /\ Len(tr) < 2
    /\ pc' = "failed"
    /\ error' = "IndexError"
    /\ UNCHANGED <<cache, outFile, runs, yi, dataset, html, tr_list, ti,
                   requests, sleeps, status, outAtStart, cacheAtStart, hist>>

\* the first row of a code kept instead of the last
RowRecordFirstWins ==
    /\ pc = "rows" /\ ti <= Len(tr_list)
    /\ Match(tr[1])
    /\ Len(tr) >= 2
    /\ LET code == Strip(tr[1])
           nm   == Strip(tr[2])
       IN  dataset' = DictSet(dataset, year,
                              DictSetDefault(DictGet(dataset, year), code, nm))
    /\ ti' = ti + 1
    /\ UNCHANGED <<cache, outFile, pc, error, runs, yi, html, tr_list,
                   requests, sleeps, status, outAtStart, cacheAtStart, hist>>

\* lines 87-92: the first cell matches, dataset[year][code] = name
RowRecord ==
    /\ pc = "rows" /\ ti <= Len(tr_list)
    /\ Match(tr[1])
    /\ Len(tr) >= 2
    /\ LET code == Strip(tr[1])
           nm   == Strip(tr[2])
       IN  dataset' = DictSet(dataset, year,
                              DictSet(DictGet(dataset, year), code, nm))
    /\ ti' = ti + 1
    /\ UNCHANGED <<cache, outFile, pc, error, runs, yi, html, tr_list,
                   requests, sleeps, status, outAtStart, cacheAtStart, hist>>

\* region.json written at the end of every year
NextYearDumps ==
    /\ pc = "rows" /\ ti > Len(tr_list)
    /\ yi' = yi + 1
    /\ pc' = "year"
    /\ outFile' = File(JsonDump(dataset))
    /\ UNCHANGED <<cache, error, runs, dataset, html, tr_list, ti,
                   requests, sleeps, status, outAtStart, cacheAtStart, hist>>

\* the loop of line 87 is over, the loop of line 78 goes on
NextYear ==
    /\ pc = "rows" /\ ti > Len(tr_list)
    /\ yi' = yi + 1
    /\ pc' = "year"
    /\ UNCHANGED <<cache, outFile, error, runs, dataset, html, tr_list, ti,
                   requests, sleeps, status, outAtStart, cacheAtStart, hist>>

\* the years without a row left out of the file
WriteJsonNonEmpty ==
    /\ pc = "year" /\ yi > NumYears
    /\ outFile' = File(JsonDumpNonEmpty(dataset))
    /\ pc' = "done"
    /\ hist' = Append(hist, [cached |-> {n \in Names : cacheAtStart[n] # NoFile},
                             out |-> outFile'])
    /\ UNCHANGED <<cache, error, runs, yi, dataset, html, tr_list, ti,
                   requests, sleeps, status, outAtStart, cacheAtStart>>

\* lines 94-95: the loop of line 78 is over, region.json is written
WriteJson ==
    /\ pc = "year" /\ yi > NumYears
    /\ outFile' = File(JsonDump(dataset))
    /\ pc' = "done"
    /\ hist' = Append(hist, [cached |-> {n \in Names : cacheAtStart[n] # NoFile},
                             out |-> outFile'])
    /\ UNCHANGED <<cache, error, runs, yi, dataset, html, tr_list, ti,
                   requests, sleeps, status, outAtStart, cacheAtStart>>

Next ==
    \/ StartRun
    \/ GetTextCached
    \/ GetTextDownload
    \/ GetTextHTTPError
    \/ GetTextConnectionError
    \/ Soup
    \/ RowSkip
    \/ RowIndexError
    \/ RowRecord
    \/ NextYear
    \/ WriteJson

Spec == Init /\ [][Next]_vars

-----------------------------------------------------------------------------
(* The extractor on its own: the first year's page has just been fetched,  *)
(* the page drawn from Pages, and lines 83-92 run on it.                   *)

InitExtract ==
    /\ \E content \in Pages :
        /\ cache = [n \in Names |-> IF n = Str(URL_INDEX[1]) THEN File(content) ELSE NoFile]
        /\ html = DecodePage(content)
    /\ outFile = NoFile
    /\ pc = "soup"
    /\ error = "none"
    /\ runs = 1
    /\ yi = 1
    /\ dataset = DictSet(<<>>, URL_INDEX[1], <<>>)
    /\ tr_list = <<>>
    /\ ti = 1
    /\ requests = 1
    /\ sleeps = 1
    /\ status = 200
    /\ outAtStart = NoFile
    /\ cacheAtStart = [n \in Names |-> NoFile]
    /\ hist = <<>>

NextExtract ==
    \/ Soup
    \/ RowSkip
    \/ RowIndexError
    \/ RowRecord

SpecExtract == InitExtract /\ [][NextExtract]_vars

-----------------------------------------------------------------------------
(* Properties *)

\* the text begins with six digits
SixDigitStart(text) ==
    /\ Len(text) >= 6
    /\ \A k \in 1..6 : text[k] \in {"0", "1", "2", "3", "4", "5", "6", "7", "8", "9"}

ErrorStatus(s) == s \in 400..599

FullAtStart == \A n \in Names : cacheAtStart[n] # NoFile

\* C1: a get_text call made while the cache file of its name exists issues no
\* request and takes no delay; the text it returns is the decoding of the cached
\* bytes and the cache is left as it was.
CacheHitTouchesNothing ==
    [][(pc = "year" /\ yi <= NumYears /\ cache[name] # NoFile)
        => /\ requests' = requests
           /\ sleeps' = sleeps
           /\ cache' = cache
           /\ html' = DecodePage(Content(cache[name]))
           /\ pc' = "soup"]_vars

\* a year was read from a cache file that held bytes that do not decode
CacheHitWitness ==
    /\ pc = "soup"
    /\ cacheAtStart[name] # NoFile
    /\ requests = 0
    /\ html # <<>>
    /\ html # Content(cache[name])

\* C2: a run that fails on a year leaves region.json as it was when the run
\* started, neither created nor modified.
FailedRunLeavesOutput == pc = "failed" => outFile = outAtStart

\* a run failed after a whole year had been extracted, with a region.json in place
FailedRunWitness ==
    /\ pc = "failed"
    /\ yi > 1
    /\ \E i \in DOMAIN dataset : dataset[i].v # <<>>
    /\ outAtStart # NoFile

\* C3: the dataset written by a run that completes has one key for each year of
\* URL_INDEX, each once, and no other key; a year whose page has no matching row
\* is there with an empty mapping.
WrittenYearsAreAllYears ==
    pc = "done" =>
        LET json == Content(outFile)
        IN  /\ Len(json) = NumYears
            /\ {json[i].k : i \in DOMAIN json} = Names
            /\ \A i \in DOMAIN json :
                LET rows == TrList(DecodePage(Content(cache[json[i].k])))
                IN  (\A r \in DOMAIN rows : ~SixDigitStart(rows[r][1]))
                        => json[i].v = <<>>

\* a completed run wrote a year with rows and a year without any
WrittenYearsWitness ==
    /\ pc = "done"
    /\ \E i, j \in DOMAIN Content(outFile) :
        /\ Content(outFile)[i].v = <<>>
        /\ Content(outFile)[j].v # <<>>

\* C4: every code key of every year's mapping begins with six digits, and the
\* key of the current year is the stripped text of the first cell of a row
\* already processed.
CodeKeysStartWithSixDigits ==
    \A i \in DOMAIN dataset :
        \A j \in DOMAIN dataset[i].v :
            /\ SixDigitStart(dataset[i].v[j].k)
            /\ (pc = "rows" /\ i = yi) =>
                \E r \in 1..(ti - 1) : dataset[i].v[j].k = Strip(tr_list[r][1])

\* a key was stored for a first cell that stripping shortened
CodeKeysWitness ==
    /\ pc = "rows"
    /\ \E r \in 1..(ti - 1) :
        /\ Strip(tr_list[r][1]) # tr_list[r][1]
        /\ Strip(tr_list[r][1]) \in DictKeys(DictGet(dataset, year))

\* C5: a run that fetched some or all of the years from the server wrote what a
\* run that found the same bytes in the cache for every year wrote.
CacheTransparency ==
    \A i, j \in DOMAIN hist :
        (hist[i].cached # Names /\ hist[j].cached = Names)
            => hist[i].out = hist[j].out

\* a run from an empty cache and a run from a full one both wrote a name that
\* held a byte that does not decode
CacheTransparencyWitness ==
    \E i, j \in DOMAIN hist :
        /\ hist[i].cached = {}
        /\ hist[j].cached = Names
        /\ \E n \in Names : \E r \in DOMAIN Content(cache[n]) :
            Content(cache[n])[r] = RowBad
        /\ \E e \in DOMAIN Content(hist[j].out) : Content(hist[j].out)[e].v # <<>>

\* C6: a run that starts with a cache file for every year sends no request and
\* leaves every cache file as it was, and two such runs write the same output.
FullCacheRunsIdempotent ==
    /\ (pc # "idle" /\ FullAtStart) => (cache = cacheAtStart /\ requests = 0)
    /\ \A i, j \in DOMAIN hist :
        (hist[i].cached = Names /\ hist[j].cached = Names)
            => hist[i].out = hist[j].out

\* two runs in succession from a full cache, one file of it with bytes that do
\* not decode
FullCacheRunsWitness ==
    /\ pc = "done"
    /\ \E i \in DOMAIN hist : i + 1 \in DOMAIN hist
        /\ hist[i].cached = Names
        /\ hist[i + 1].cached = Names
    /\ \E n \in Names : Content(cache[n]) # DecodePage(Content(cache[n]))

\* C7: a row is kept if and only if the trimmed text of its first remaining cell
\* begins with six digits, and a kept row stores the first cell's trimmed text as
\* code with the second cell's trimmed text as name.  Stated for the rows that
\* have a second cell, so that a row fails it by its first cell alone.
RowKeptIffTrimmedMatches ==
    [][(pc = "rows" /\ ti <= Len(tr_list) /\ Len(tr) >= 2)
        => IF SixDigitStart(Strip(tr[1]))
              THEN /\ Strip(tr[1]) \in DictKeys(DictGet(dataset', year))
                   /\ DictGet(DictGet(dataset', year), Strip(tr[1])) = Strip(tr[2])
              ELSE dataset' = dataset]_vars

\* C8: when two or more kept rows of a page have the same code, the year's
\* mapping holds that code once, with the name of the last of these rows.
LastRowOfACodeWins ==
    pc = "rows" =>
        \A r1, r2 \in 1..(ti - 1) :
            LET kept(r) == SixDigitStart(tr_list[r][1]) /\ Len(tr_list[r]) >= 2
                code(r) == Strip(tr_list[r][1])
                m       == DictGet(dataset, year)
            IN  ( /\ r1 < r2
                  /\ kept(r1) /\ kept(r2)
                  /\ code(r1) = code(r2)
                  /\ \A r3 \in (r2 + 1)..(ti - 1) : ~(kept(r3) /\ code(r3) = code(r2)) )
                => /\ Cardinality({j \in DOMAIN m : m[j].k = code(r2)}) = 1
                   /\ \A j \in DOMAIN m :
                        m[j].k = code(r2) => m[j].v = Strip(tr_list[r2][2])

\* two kept rows with one code and two names have been processed
LastRowWitness ==
    /\ pc = "rows"
    /\ \E r1, r2 \in 1..(ti - 1) :
        /\ r1 < r2
        /\ SixDigitStart(tr_list[r1][1]) /\ Len(tr_list[r1]) >= 2
        /\ SixDigitStart(tr_list[r2][1]) /\ Len(tr_list[r2]) >= 2
        /\ Strip(tr_list[r1][1]) = Strip(tr_list[r2][1])
        /\ Strip(tr_list[r1][2]) # Strip(tr_list[r2][2])

\* C9: the cache changes only by a fetch of an uncached year whose response is
\* not an error, and only in that year's entry; a fetch that fails leaves every
\* entry as it was.
CacheWrittenOnlyOnSuccess ==
    [][ /\ (cache' # cache)
            => /\ pc = "year" /\ yi <= NumYears
               /\ cache[name] = NoFile
               /\ cache'[name] # NoFile
               /\ requests' = requests + 1
               /\ ~ErrorStatus(status')
               /\ pc' = "soup"
               /\ \A n \in Names \ {name} : cache'[n] = cache[n]
        /\ (pc = "year" /\ pc' = "failed") => cache' = cache ]_vars

\* the fetch of a later year got an error status: the year has no cache file,
\* an earlier year has
CacheOnErrorWitness ==
    /\ pc = "failed"
    /\ error = "HTTPError"
    /\ ErrorStatus(status)
    /\ yi > 1
    /\ cache[name] = NoFile
    /\ cache[Str(URL_INDEX[1])] # NoFile

\* C10: a matching row with one remaining cell is neither skipped nor recorded:
\* it ends the run with an index error, after which no year is processed by this
\* run and no output is written.
OneCellRowAbortsRun ==
    [][ /\ (pc = "rows" /\ ti <= Len(tr_list)
                /\ SixDigitStart(tr[1]) /\ Len(tr) = 1)
            => /\ pc' = "failed"
               /\ error' = "IndexError"
               /\ dataset' = dataset
               /\ outFile' = outFile
        /\ (pc = "failed")
            => /\ runs' = runs + 1
               /\ pc' = "year" /\ yi' = 1
               /\ dataset' = <<>>
               /\ outFile' = outFile ]_vars

\* a run ended on a one-cell row with a later year still to come
OneCellRowWitness ==
    /\ pc = "failed"
    /\ error = "IndexError"
    /\ yi < NumYears
    /\ Len(tr_list[ti]) = 1
    /\ outFile = outAtStart

====
